---------------------------- MODULE Spec2Model ----------------------------
(***************************************************************************)
(* A model of the component generator (src/index.js).                      *)
(*                                                                         *)
(* A string is a sequence of one-character strings, <<"X", "b">> for "Xb". *)
(* A path is a sequence of segments, each segment a string.  The file      *)
(* system is a table of nodes in creation order; a node is a directory or  *)
(* a file with its content.                                                *)
(***************************************************************************)
EXTENDS Integers, Sequences, FiniteSets, TLC

(***************************************************************************)
(* Bounds of the model.                                                    *)
(***************************************************************************)
\* the number of times the script is run, one after the other
MaxRuns == 2
\* the number of entries of the template directory before the first run
MaxFiles == 2

(***************************************************************************)
(* Strings.                                                                *)
(***************************************************************************)
\* does p occur in s at position i
OccursAt(s, p, i) ==
  /\ i >= 1
  /\ i + Len(p) - 1 <= Len(s)
  /\ \A k \in 1..Len(p) : s[i + k - 1] = p[k]

\* String.prototype.indexOf, 1-based; 0 when p does not occur in s
IndexOf(s, p) ==
  LET hits == {i \in 1..(Len(s) + 1) : OccursAt(s, p, i)}
  IN IF hits = {} THEN 0 ELSE CHOOSE i \in hits : \A j \in hits : i <= j

RECURSIVE GetSubstitutionFrom(_, _, _, _, _)
\* GetSubstitution of ECMAScript: in the replacement text, $$ is a dollar and
\* $& the matched text; any other character stands for itself.  (The other
\* forms, the text before or after the match and the capture groups, need a
\* backquote, a quote or a digit after the dollar; ComponentNames has none.)
GetSubstitutionFrom(matched, str, position, replacement, i) ==
  IF i > Len(replacement) THEN <<>>
  ELSE IF replacement[i] = "$" /\ i < Len(replacement)
         /\ replacement[i + 1] \in {"$", "&"}
  THEN (IF replacement[i + 1] = "$" THEN <<"$">> ELSE matched)
         \o GetSubstitutionFrom(matched, str, position, replacement, i + 2)
  ELSE <<replacement[i]>>
         \o GetSubstitutionFrom(matched, str, position, replacement, i + 1)

GetSubstitution(matched, str, position, replacement) ==
  GetSubstitutionFrom(matched, str, position, replacement, 1)

\* String.prototype.replace(pattern, replacement) with a string pattern:
\* the first occurrence only, the replacement text expanded.
StringReplace(s, pattern, replacement) ==
  LET pos == IndexOf(s, pattern)
  IN IF pos = 0 THEN s
     ELSE SubSeq(s, 1, pos - 1)
            \o GetSubstitution(pattern, s, pos, replacement)
            \o SubSeq(s, pos + Len(pattern), Len(s))

(***************************************************************************)
(* Regular expressions: the patterns made of ordinary characters, "."      *)
(* (any character) and the quantifier "+" (one or more, greedy).  A        *)
(* compiled pattern is a sequence of atoms.                                *)
(***************************************************************************)
RECURSIVE CompileFrom(_, _)
CompileFrom(src, i) ==
  IF i > Len(src) THEN <<>>
  ELSE LET plus == i < Len(src) /\ src[i + 1] = "+"
       IN <<[ch |-> src[i], any |-> src[i] = ".", plus |-> plus]>>
            \o CompileFrom(src, IF plus THEN i + 2 ELSE i + 1)

\* a "+" with nothing before it to repeat: new RegExp throws a SyntaxError
NothingToRepeat(src) ==
  \E i \in 1..Len(src) :
    /\ src[i] = "+"
    /\ \/ i = 1
       \/ src[i - 1] = "+"

\* new RegExp(src, 'g')
NewRegExp(src) ==
  IF NothingToRepeat(src)
  THEN [ok |-> FALSE, atoms |-> <<>>]
  ELSE [ok |-> TRUE, atoms |-> CompileFrom(src, 1)]

AtomMatches(atom, c) == atom.any \/ atom.ch = c

RECURSIVE RunLength(_, _, _)
\* how many characters of s from position i on match the atom
RunLength(atom, s, i) ==
  IF i <= Len(s) /\ AtomMatches(atom, s[i])
  THEN 1 + RunLength(atom, s, i + 1)
  ELSE 0

RECURSIVE MatchAt(_, _, _, _)
RECURSIVE TryPlus(_, _, _, _, _)
\* the backtracking matcher: the position after the match of atoms[k..] at
\* position i of s, or -1 when there is none
MatchAt(atoms, k, s, i) ==
  IF k > Len(atoms) THEN i
  ELSE IF atoms[k].plus
  THEN TryPlus(atoms, k, s, i, RunLength(atoms[k], s, i))
  ELSE IF i <= Len(s) /\ AtomMatches(atoms[k], s[i])
  THEN MatchAt(atoms, k + 1, s, i + 1)
  ELSE -1

\* greedy: the longest repetition first, then shorter ones
TryPlus(atoms, k, s, i, count) ==
  IF count < 1 THEN -1
  ELSE LET r == MatchAt(atoms, k + 1, s, i + count)
       IN IF r # -1 THEN r ELSE TryPlus(atoms, k, s, i, count - 1)

RECURSIVE RegExpReplaceFrom(_, _, _, _)
\* RegExp.prototype[Symbol.replace] of a global pattern: s is searched from
\* left to right; a match is replaced by the expanded replacement and the
\* search goes on after it, a character no match starts at is kept
RegExpReplaceFrom(atoms, s, replacement, pos) ==
  IF pos > Len(s) THEN <<>>
  ELSE LET e == MatchAt(atoms, 1, s, pos)
       IN IF e > pos
          THEN GetSubstitution(SubSeq(s, pos, e - 1), s, pos, replacement)
                 \o RegExpReplaceFrom(atoms, s, replacement, e)
          ELSE <<s[pos]>> \o RegExpReplaceFrom(atoms, s, replacement, pos + 1)

RegExpReplace(regexp, s, replacement) ==
  RegExpReplaceFrom(regexp.atoms, s, replacement, 1)


(***************************************************************************)
(* Paths and the file system.                                              *)
(***************************************************************************)
RECURSIVE Normalize(_, _, _)
\* path.join: the segments left to right; an empty segment and "." are
\* dropped, ".." removes the segment before it (none above the root)
Normalize(done, segments, k) ==
  IF k > Len(segments) THEN done
  ELSE IF segments[k] = <<>> \/ segments[k] = <<".">>
  THEN Normalize(done, segments, k + 1)
  ELSE IF segments[k] = <<".", ".">>
  THEN Normalize(SubSeq(done, 1, Len(done) - 1), segments, k + 1)
  ELSE Normalize(Append(done, segments[k]), segments, k + 1)

PathJoin(segments) == Normalize(<<>>, segments, 1)

Parent(p) == SubSeq(p, 1, Len(p) - 1)

\* the place of path p in table t, 0 when nothing is at p
NodeIndex(t, p) ==
  IF \E i \in 1..Len(t) : t[i].path = p
  THEN CHOOSE i \in 1..Len(t) : t[i].path = p
  ELSE 0

IsDir(t, p) == p = <<>> \/ \E i \in 1..Len(t) : t[i].path = p /\ t[i].kind = "dir"
IsFile(t, p) == \E i \in 1..Len(t) : t[i].path = p /\ t[i].kind = "file"

DirNode(p) == [path |-> p, kind |-> "dir", content |-> <<>>]
FileNode(p, content) == [path |-> p, kind |-> "file", content |-> content]

RECURSIVE MkdirFrom(_, _, _)
\* fs.mkdirSync(p, { recursive: true }): every missing directory on the way
\* to p is created, an existing directory is no error, a file on the way is
MkdirFrom(t, p, k) ==
  IF k > Len(p) THEN [ok |-> TRUE, fs |-> t]
  ELSE LET prefix == SubSeq(p, 1, k)
       IN IF IsFile(t, prefix) THEN [ok |-> FALSE, fs |-> t]
          ELSE IF IsDir(t, prefix) THEN MkdirFrom(t, p, k + 1)
          ELSE MkdirFrom(Append(t, DirNode(prefix)), p, k + 1)

\* mkdirSync without { recursive: true }: an existing path is an error
MkdirSyncNotRecursive(t, p) ==
  IF IsDir(t, p) \/ IsFile(t, p) \/ ~IsDir(t, Parent(p))
  THEN [ok |-> FALSE, fs |-> t]
  ELSE [ok |-> TRUE, fs |-> Append(t, DirNode(p))]

MkdirSync(t, p) == MkdirFrom(t, p, 1)

\* fs.readdirSync(d): the names of the entries of d, files and directories,
\* in the order of the directory table.  The system promises no order; the
\* entries present before the first run come in every order (Listings), and
\* an unchanged directory is listed the same way in every run.
ReaddirSync(t, d) ==
  LET entries == SelectSeq(t, LAMBDA n : Len(n.path) = Len(d) + 1 /\ Parent(n.path) = d)
  IN IF IsDir(t, d)
     THEN [ok |-> TRUE, names |-> [i \in 1..Len(entries) |-> entries[i].path[Len(d) + 1]]]
     ELSE [ok |-> FALSE, names |-> <<>>]

\* fs.readFileSync(p, 'utf-8'): fails on a missing path and on a directory
ReadFileSync(t, p) ==
  IF IsFile(t, p)
  THEN [ok |-> TRUE, content |-> t[NodeIndex(t, p)].content]
  ELSE [ok |-> FALSE, content |-> <<>>]

\* appendFileSync in the place of writeFileSync: an existing file grows
AppendFileSync(t, p, content) ==
  IF IsDir(t, p) \/ ~IsDir(t, Parent(p)) THEN [ok |-> FALSE, fs |-> t]
  ELSE IF IsFile(t, p)
  THEN [ok |-> TRUE,
        fs |-> [t EXCEPT ![NodeIndex(t, p)].content = t[NodeIndex(t, p)].content \o content]]
  ELSE [ok |-> TRUE, fs |-> Append(t, FileNode(p, content))]

\* fs.writeFileSync(p, content): an existing file is truncated and written in
\* place, a new file is added to its directory; fails when p is a directory
\* or the directory of p does not exist
WriteFileSync(t, p, content) ==
  IF IsDir(t, p) \/ ~IsDir(t, Parent(p)) THEN [ok |-> FALSE, fs |-> t]
  ELSE IF IsFile(t, p)
  THEN [ok |-> TRUE, fs |-> [t EXCEPT ![NodeIndex(t, p)].content = content]]
  ELSE [ok |-> TRUE, fs |-> Append(t, FileNode(p, content))]

\* the files directly in directory d, as a function from name to content
FilesIn(t, d) ==
  LET idx == {i \in 1..Len(t) : t[i].kind = "file" /\ Len(t[i].path) = Len(d) + 1
                                  /\ Parent(t[i].path) = d}
  IN {<<t[i].path[Len(d) + 1], t[i].content>> : i \in idx}

\* everything at or below directory d
Subtree(t, d) ==
  {t[i] : i \in {j \in 1..Len(t) : Len(t[j].path) >= Len(d)
                                     /\ SubSeq(t[j].path, 1, Len(d)) = d}}


(***************************************************************************)
(* The inputs: where the script lives, what cg.config.json may hold, what  *)
(* the user may type and what the template directory may contain.          *)
(***************************************************************************)
\* __dirname
DirName == <<<<"r">>>>

\* "./c" and "./c/a": the template directory lies in the components
\* directory, so the component named "a" is generated into it
ComponentsDir == <<<<".">>, <<"c">>>>
TemplateDir == <<<<".">>, <<"c">>, <<"a">>>>

\* an ordinary token, a two-character token, and tokens with characters that
\* mean something in a regular expression; "+" alone is no valid pattern
Placeholders ==
  {<<"X">>, <<"X", "b">>, <<"X", ".">>, <<"X", "+">>, <<"+">>}

\* the empty line, ordinary names, names with a dollar, and the name of a
\* file that lies in the components directory
ComponentNames ==
  {<<>>, <<"a">>, <<"a", "a">>, <<"$">>, <<"$", "$">>, <<"$", "&">>, <<"f">>}

\* what the template directory may hold: three files and a subdirectory
TemplateCatalog ==
  { FileNode(<<<<"X">>>>, <<"X", "b", "X">>),
    FileNode(<<<<"X", "X">>>>, <<"X", "b">>),
    FileNode(<<<<"a", "a">>>>, <<"X">>),
    DirNode(<<<<"d">>>>) }

\* the template directory's entries in the order the system lists them: any
\* entries of the catalog, in any order, none twice
Listings ==
  {l \in UNION {[1..n -> TemplateCatalog] : n \in 0..MaxFiles} :
     \A i, j \in 1..Len(l) : i # j => l[i] # l[j]}

NullConfig ==
  [COMPONENTS_DIR |-> <<>>, TEMPLATE_DIR |-> <<>>, COMPONENT_NAME_PLACEHOLDER |-> <<>>]

\* cg.config.json: absent, not JSON, or the three fields
ConfigFiles ==
  {[state |-> st, value |-> NullConfig] : st \in {"missing", "invalid"}}
    \cup {[state |-> "valid",
           value |-> [COMPONENTS_DIR |-> ComponentsDir, TEMPLATE_DIR |-> TemplateDir,
                      COMPONENT_NAME_PLACEHOLDER |-> p]] : p \in Placeholders}

\* the project before the first run: the components directory with a file,
\* "f", and one component, "$", generated earlier (a file of its own, "k",
\* and a file named like the component), and the template directory when
\* there is one
InitialFs(listing, templateExists) ==
  LET root == PathJoin(DirName \o ComponentsDir)
      tdir == PathJoin(DirName \o TemplateDir)
      old == Append(root, <<"$">>)
  IN <<DirNode(DirName), DirNode(root), FileNode(Append(root, <<"f">>), <<"b">>),
       DirNode(old),
       FileNode(Append(old, <<"k">>), <<"k">>),
       FileNode(Append(old, <<"$">>), <<"b">>)>>
       \o (IF templateExists
           THEN <<DirNode(tdir)>>
                  \o [i \in 1..Len(listing) |->
                        [listing[i] EXCEPT !.path = tdir \o listing[i].path]]
           ELSE <<>>)

(***************************************************************************)
(* The state.                                                              *)
(***************************************************************************)
VARIABLES
  fs,             \* the file system below the root
  configFile,     \* cg.config.json in the working directory
  pc,             \* where the process is
  componentName,  \* the line the user typed
  config,         \* createComponent's config
  templateFiles,  \* createComponent's templateFiles
  index,          \* the entry forEach is at
  stdout,         \* the success messages written, by component name
  fault,          \* the error the process ended on, "none" without one
  exitStatus,     \* <<>> while the process runs, then its exit status
  rlClosed,       \* rl.close() was called
  run,            \* the number of the run
  fs0,            \* the file system when this run started
  prev,           \* the run before this one: its name and its fs0
  written         \* the files written in this run, in order

vars == <<fs, configFile, pc, componentName, config, templateFiles, index, stdout,
          fault, exitStatus, rlClosed, run, fs0, prev, written>>

\* the constants of createComponent
componentDir == PathJoin(DirName \o config.COMPONENTS_DIR \o <<componentName>>)
templateDir == PathJoin(DirName \o config.TEMPLATE_DIR)
placeholder == config.COMPONENT_NAME_PLACEHOLDER

Init ==
  /\ configFile \in ConfigFiles
  /\ \E listing \in Listings, templateExists \in BOOLEAN :
       /\ templateExists \/ listing = <<>>
       /\ fs = InitialFs(listing, templateExists)
  /\ pc = "prompt"
  /\ componentName = <<>>
  /\ config = NullConfig
  /\ templateFiles = <<>>
  /\ index = 0
  /\ stdout = <<>>
  /\ fault = "none"
  /\ exitStatus = <<>>
  /\ rlClosed = FALSE
  /\ run = 1
  /\ fs0 = fs
  /\ prev = [name |-> <<>>, fs0 |-> <<>>]
  /\ written = <<>>

(***************************************************************************)
(* The steps of a run.                                                     *)
(***************************************************************************)
\* a handler that undoes the run before the process dies
ThrowWithCleanup(kind) ==
  /\ pc' = "crashed"
  /\ fault' = kind
  /\ exitStatus' = <<1>>
  /\ fs' = fs0
  /\ UNCHANGED <<configFile, componentName, config, templateFiles, index, stdout,
                 rlClosed, run, fs0, prev, written>>

\* an exception nobody catches: the process dies with status 1, rl is left
\* open, the file system stays as it is
Throw(kind) ==
  /\ pc' = "crashed"
  /\ fault' = kind
  /\ exitStatus' = <<1>>
  /\ fs' = fs
  /\ UNCHANGED <<configFile, componentName, config, templateFiles, index, stdout,
                 rlClosed, run, fs0, prev, written>>

\* the user answers the prompt: the callback of rl.question starts
Question ==
  /\ pc = "prompt"
  /\ \E name \in ComponentNames : componentName' = name
  /\ pc' = "readConfig"
  /\ UNCHANGED <<fs, configFile, config, templateFiles, index, stdout, fault,
                 exitStatus, rlClosed, run, fs0, prev, written>>

\* process.exit(1) after console.error
Exit1(kind) ==
  /\ pc' = "exited"
  /\ fault' = kind
  /\ exitStatus' = <<1>>
  /\ UNCHANGED <<fs, configFile, componentName, config, templateFiles, index, stdout,
                 rlClosed, run, fs0, prev, written>>

\* readConfig without its two exits: whatever the file is, its value is used
readConfigNoExit ==
  /\ pc = "readConfig"
  /\ config' = configFile.value
  /\ pc' = "mkdir"
  /\ UNCHANGED <<fs, configFile, componentName, templateFiles, index, stdout,
                 fault, exitStatus, rlClosed, run, fs0, prev, written>>

readConfig ==
  /\ pc = "readConfig"
  /\ \/ /\ configFile.state = "missing"
        /\ Exit1("ConfigMissing")
     \/ /\ configFile.state = "invalid"
        /\ Exit1("ConfigInvalid")
     \/ /\ configFile.state = "valid"
        /\ config' = configFile.value
        /\ pc' = "mkdir"
        /\ UNCHANGED <<fs, configFile, componentName, templateFiles, index, stdout,
                       fault, exitStatus, rlClosed, run, fs0, prev, written>>

mkdirSync ==
  /\ pc = "mkdir"
  /\ \E dir \in {componentDir} :
     \E r \in {MkdirSync(fs, dir)} :
       IF r.ok
       THEN /\ fs' = r.fs
            /\ pc' = "readdir"
            /\ UNCHANGED <<configFile, componentName, config, templateFiles, index,
                           stdout, fault, exitStatus, rlClosed, run, fs0, prev, written>>
       ELSE Throw("mkdirSync")

readdirSync ==
  /\ pc = "readdir"
  /\ \E dir \in {templateDir} :
     \E r \in {ReaddirSync(fs, dir)} :
       IF r.ok
       THEN /\ templateFiles' = r.names
            /\ index' = 1
            /\ pc' = "forEach"
            /\ UNCHANGED <<fs, configFile, componentName, config, stdout, fault,
                           exitStatus, rlClosed, run, fs0, prev, written>>
       ELSE Throw("readdirSync")

\* one call of forEach's callback; each of its constants is bound to its
\* value once, in the order the callback computes them
forEach ==
  /\ pc = "forEach"
  /\ index <= Len(templateFiles)
  /\ \E file \in {templateFiles[index]} :
     \E templateFilePath \in {PathJoin(templateDir \o <<file>>)} :
     \E outName \in {StringReplace(file, placeholder, componentName)} :
     \E componentFilePath \in {PathJoin(componentDir \o <<outName>>)} :
     \E rd \in {ReadFileSync(fs, templateFilePath)} :
       IF ~rd.ok THEN Throw("readFileSync")
       ELSE
         \E regexp \in {NewRegExp(placeholder)} :
           IF ~regexp.ok THEN Throw("RegExp")
           ELSE
             \E componentContent \in {RegExpReplace(regexp, rd.content, componentName)} :
             \E wr \in {WriteFileSync(fs, componentFilePath, componentContent)} :
               IF ~wr.ok THEN Throw("writeFileSync")
               ELSE /\ fs' = wr.fs
                    /\ index' = index + 1
                    /\ written' = Append(written, [file |-> file,
                                                   templateContent |-> rd.content,
                                                   outName |-> outName,
                                                   path |-> componentFilePath,
                                                   content |-> componentContent])
                    /\ UNCHANGED <<configFile, pc, componentName, config,
                                   templateFiles, stdout, fault, exitStatus, rlClosed,
                                   run, fs0, prev>>

\* the message one entry early: the last entry is never processed
logSuccessEarly ==
  /\ pc = "forEach"
  /\ index >= Len(templateFiles)
  /\ stdout' = Append(stdout, componentName)
  /\ pc' = "close"
  /\ UNCHANGED <<fs, configFile, componentName, config, templateFiles, index, fault,
                 exitStatus, rlClosed, run, fs0, prev, written>>

\* console.log after the last entry
logSuccess ==
  /\ pc = "forEach"
  /\ index > Len(templateFiles)
  /\ stdout' = Append(stdout, componentName)
  /\ pc' = "close"
  /\ UNCHANGED <<fs, configFile, componentName, config, templateFiles, index, fault,
                 exitStatus, rlClosed, run, fs0, prev, written>>

\* rl.close(); nothing is left to wait for and the process exits with 0
rlClose ==
  /\ pc = "close"
  /\ rlClosed' = TRUE
  /\ exitStatus' = <<0>>
  /\ pc' = "done"
  /\ UNCHANGED <<fs, configFile, componentName, config, templateFiles, index, stdout,
                 fault, run, fs0, prev, written>>

\* the script is started again on the project as the last run left it
Rerun ==
  /\ pc \in {"done", "exited", "crashed"}
  /\ run < MaxRuns
  /\ run' = run + 1
  /\ prev' = [name |-> componentName, fs0 |-> fs0]
  /\ fs0' = fs
  /\ pc' = "prompt"
  /\ componentName' = <<>>
  /\ config' = NullConfig
  /\ templateFiles' = <<>>
  /\ index' = 0
  /\ stdout' = <<>>
  /\ fault' = "none"
  /\ exitStatus' = <<>>
  /\ rlClosed' = FALSE
  /\ written' = <<>>
  /\ UNCHANGED <<fs, configFile>>

Program == readConfig \/ mkdirSync \/ readdirSync \/ forEach \/ logSuccess \/ rlClose

Next == Question \/ Program \/ Rerun

Spec == Init /\ [][Next]_vars

\* One run, for what a run must come to: the callback is synchronous code,
\* so once the user has answered it runs to its end.  Nothing makes the user
\* answer.
OneRun == Question \/ Program

LiveSpec == Init /\ [][OneRun]_vars /\ WF_vars(Program)

(***************************************************************************)
(* What the claims speak of.                                               *)
(***************************************************************************)
RECURSIVE ReplaceAllFrom(_, _, _, _)
\* s from position pos on, every occurrence of the (non-empty) token, from
\* left to right, replaced by exactly the text name
ReplaceAllFrom(s, token, name, pos) ==
  LET hits == {i \in pos..Len(s) : OccursAt(s, token, i)}
  IN IF hits = {} THEN SubSeq(s, pos, Len(s))
     ELSE LET i == CHOOSE x \in hits : \A y \in hits : x <= y
          IN SubSeq(s, pos, i - 1) \o name
               \o ReplaceAllFrom(s, token, name, i + Len(token))

LiteralReplaceAll(s, token, name) == ReplaceAllFrom(s, token, name, 1)

Contains(s, token) == IndexOf(s, token) # 0

Terminated == pc \in {"done", "exited", "crashed"}

\* the process is in createComponent, past readConfig
Configured == pc \in {"mkdir", "readdir", "forEach", "close", "done", "crashed"}

\* the names createComponent gives the entries the template directory had
\* when the run started
OutputNames ==
  LET names == ReaddirSync(fs0, templateDir).names
  IN {StringReplace(names[i], placeholder, componentName) : i \in 1..Len(names)}

\* the last content written to path p in this run
LastWritten(p) ==
  LET js == {j \in 1..Len(written) : written[j].path = p}
  IN written[CHOOSE j \in js : \A k \in js : k <= j].content

\* C1: every file written from a template whose content contains the
\* placeholder, for a component name that does not contain it, holds the
\* template's content with every occurrence of the placeholder replaced by
\* exactly the component name.
C1_ContentEveryOccurrenceReplaced ==
  \A j \in 1..Len(written) :
    (Contains(written[j].templateContent, placeholder)
       /\ ~Contains(componentName, placeholder))
      => written[j].content
           = LiteralReplaceAll(written[j].templateContent, placeholder, componentName)

\* C2: the name of every file written is the template entry's name with every
\* occurrence of the placeholder replaced by the component name (stated for
\* the component names without a dollar, which are their own replacement text).
C2_FileNameEveryOccurrenceReplaced ==
  \A j \in 1..Len(written) :
    ~Contains(componentName, <<"$">>)
      => written[j].outName
           = LiteralReplaceAll(written[j].file, placeholder, componentName)

\* C3: when cg.config.json is missing or is not JSON, the run ends with exit
\* status 1 once the name is entered, on the matching error, without a success
\* message, and the file system is never touched.
C3_ConfigFailureWritesNothing ==
  configFile.state # "valid"
    => /\ pc \in {"prompt", "readConfig", "exited"}
       /\ fs = fs0
       /\ pc = "exited"
            => /\ exitStatus = <<1>>
               /\ fault = (IF configFile.state = "missing"
                           THEN "ConfigMissing" ELSE "ConfigInvalid")
               /\ stdout = <<>>
       /\ pc # "exited" => exitStatus = <<>>

C3_Witness ==
  /\ pc = "exited"
  /\ configFile.state = "invalid"
  /\ componentName = <<"a">>
  /\ exitStatus = <<1>>

\* C4: a run that ends, with the same component name as the run before it and
\* the template directory as it was when that run started, leaves the
\* destination directory as that run left it: the same files, the same contents.
C4_SecondRunChangesNothing ==
  (/\ run > 1
   /\ Terminated
   /\ configFile.state = "valid"
   /\ componentName = prev.name
   /\ Subtree(fs0, PathJoin(DirName \o TemplateDir))
        = Subtree(prev.fs0, PathJoin(DirName \o TemplateDir)))
    => Subtree(fs, PathJoin(DirName \o ComponentsDir \o <<componentName>>))
         = Subtree(fs0, PathJoin(DirName \o ComponentsDir \o <<componentName>>))

C4_Witness ==
  /\ run = 2
  /\ pc = "done"
  /\ componentName = prev.name
  /\ componentName = <<"a", "a">>
  /\ Len(written) = 2
  /\ written[1].path # written[2].path

\* C5: when the destination directory exists before the run, mkdirSync does
\* not fail, every file in it whose name is no template entry's output name
\* stays with its content, and every file added or changed has such a name.
C5_ExistingDestinationIsMergedInto ==
  (Configured /\ IsDir(fs0, componentDir))
    => /\ fault # "mkdirSync"
       /\ \A f \in FilesIn(fs0, componentDir) :
            f[1] \notin OutputNames => f \in FilesIn(fs, componentDir)
       /\ \A f \in FilesIn(fs, componentDir) :
            f \in FilesIn(fs0, componentDir) \/ f[1] \in OutputNames

C5_Witness ==
  /\ pc = "done"
  /\ run = 1
  /\ componentName = <<"$">>
  /\ <<<<"k">>, <<"k">>>> \in FilesIn(fs, componentDir)
  /\ <<<<"$">>, <<"b">>>> \notin FilesIn(fs, componentDir)
  /\ Len(written) = 2

\* C6: after a run that succeeded into a directory that did not exist before,
\* the component directory holds as many files as the template directory has
\* entries.
C6_OneFilePerEntry ==
  (pc = "done" /\ ~IsDir(fs0, componentDir))
    => Cardinality(FilesIn(fs, componentDir)) = Len(templateFiles)

\* C7: whatever the placeholder, also one with characters that mean something
\* in a regular expression, every file written holds the template's content
\* with every literal occurrence of the placeholder replaced by the component
\* name and everything else unchanged (stated for the component names without
\* a dollar, which are their own replacement text).
C7_PlaceholderIsLiteral ==
  \A j \in 1..Len(written) :
    ~Contains(componentName, <<"$">>)
      => written[j].content
           = LiteralReplaceAll(written[j].templateContent, placeholder, componentName)

\* C8: when the run dies on the k-th entry, it stopped at that entry: exactly
\* the k-1 entries before it were written, each path written still holds the
\* content last written to it, and whatever the run did not write is as it
\* was when the run started.
C8_NoRollback ==
  (pc = "crashed" /\ fault \in {"readFileSync", "RegExp", "writeFileSync"})
    => /\ index \in 1..Len(templateFiles)
       /\ Len(written) = index - 1
       /\ \A j \in 1..Len(written) :
            /\ written[j].file = templateFiles[j]
            /\ FileNode(written[j].path, LastWritten(written[j].path))
                 \in Subtree(fs, <<>>)
       /\ \A n \in Subtree(fs0, <<>>) :
            (n \in Subtree(fs, <<>>))
              \/ \E j \in 1..Len(written) : written[j].path = n.path

C8_Witness ==
  /\ pc = "crashed"
  /\ fault = "readFileSync"
  /\ index = 2
  /\ Len(written) = 1
  /\ IsFile(fs, written[1].path)
  /\ ~IsFile(fs0, written[1].path)

\* C9: the files of the template directory and their contents are, at every
\* point of a run, what they were when the run started.
C9_TemplateDirUnchanged ==
  Configured => FilesIn(fs, templateDir) = FilesIn(fs0, templateDir)

C10_Safe ==
  /\ Len(stdout) <= 1
  /\ stdout # <<>>
       => /\ stdout = <<componentName>>
          /\ pc \in {"close", "done"}
          /\ fault = "none"
          /\ index = Len(templateFiles) + 1
          /\ Len(written) = Len(templateFiles)
          /\ \A j \in 1..Len(templateFiles) : written[j].file = templateFiles[j]
  /\ pc \in {"exited", "crashed"} => (stdout = <<>> /\ ~rlClosed)
  /\ rlClosed => (pc = "done" /\ stdout # <<>>)

\* C10: the success message is written only after every entry's file has been
\* written, at most once in a run and with the component's name, never in a
\* run that ended on an error; and a run whose callback has started ends on an
\* error or writes the message and then closes the prompt.
C10_SuccessMessageLast ==
  /\ []C10_Safe
  /\ (pc = "readConfig")
       ~> (\/ pc \in {"exited", "crashed"}
           \/ (pc = "done" /\ stdout = <<componentName>> /\ rlClosed))

C10_Witness ==
  /\ pc = "done"
  /\ stdout = <<componentName>>
  /\ rlClosed
  /\ exitStatus = <<0>>
  /\ Len(written) = 2

=============================================================================
